---- MODULE Spec2Model ----
(***************************************************************************)
(* A model of wcwidth/wcwidth.py: the interval lookup _bisearch, the       *)
(* version parser _wcversion_value, the memoized resolver                  *)
(* _wcmatch_version, the memoized classifier wcwidth and the aggregator    *)
(* wcswidth.                                                               *)
(*                                                                         *)
(* A string of characters is a sequence of code points.  A version string  *)
(* is held as the sequence of its dot-separated tokens, so "4.9.9" is      *)
(* <<"4", "9", "9">>, "8.0" is <<"8", "0">> and "auto" is <<"auto">>.      *)
(* int() of a token is the table IntOf ("08" and "8" are both 8) and       *)
(* raises ValueError outside its domain.                                   *)
(***************************************************************************)
EXTENDS Integers, Sequences, FiniteSets, TLC

(* ----------------------------- bounds ---------------------------------- *)

\* longest string handed to wcswidth
MaxLen == 3
\* most dot-separated tokens of a requested version string
MaxParts == 3
\* most calls in one behaviour of SpecCalls
MaxCalls == 3

(* ------------------------ program constants ---------------------------- *)

\* ZERO WIDTH JOINER, U+200D
ZWJ == 8205
\* VARIATION SELECTOR-16, U+FE0F
VS16 == 65039
\* maxsize of the lru_cache of wcwidth
WcwidthCacheSize == 1000
\* maxsize of the lru_cache of _wcmatch_version
MatchCacheSize == 8

Range(s) == {s[k] : k \in 1..Len(s)}

\* F applied to the value of x, which is computed once
With(x, F(_)) == CHOOSE y \in {F(v) : v \in {x}} : TRUE

(* ------------------- data of the sibling modules ----------------------- *)

\* unicode_versions.list_versions(): the ascending master list
list_versions ==
    << <<"4", "1", "0">>, <<"5", "0", "0">>, <<"8", "0", "0">>,
       <<"9", "0", "0">>, <<"10", "0", "0">> >>

\* int() of one token of a version string; a token outside the domain makes
\* int() raise ValueError
IntOf ==
    [t \in {"-1", "0", "1", "4", "5", "8", "08", "9", "10", "11"} |->
        CASE t = "-1" -> 0 - 1
          [] t = "0"  -> 0
          [] t = "1"  -> 1
          [] t = "4"  -> 4
          [] t = "5"  -> 5
          [] t = "8"  -> 8
          [] t = "08" -> 8
          [] t = "9"  -> 9
          [] t = "10" -> 10
          [] t = "11" -> 11]

\* Python's < on tuples of integers: lexicographic, a proper prefix is less
RECURSIVE TupleLess(_, _)
TupleLess(a, b) ==
    IF a = <<>> THEN b # <<>>
    ELSE IF b = <<>> THEN FALSE
    ELSE IF Head(a) # Head(b) THEN Head(a) < Head(b)
    ELSE TupleLess(Tail(a), Tail(b))

TupleLeq(a, b) == a = b \/ TupleLess(a, b)

\* _wcversion_value: tuple(map(int, ver_string.split('.'))), and (0, 0, 0)
\* when int() raises
_wcversion_value(ver_string) ==
    IF \A k \in 1..Len(ver_string) : ver_string[k] \in DOMAIN IntOf
    THEN [k \in 1..Len(ver_string) |-> IntOf[ver_string[k]]]
    ELSE <<0, 0, 0>>

\* sorted(versions, key=_wcversion_value): a stable insertion sort
RECURSIVE InsertByValue(_, _)
InsertByValue(v, sorted) ==
    IF sorted = <<>> THEN <<v>>
    ELSE IF TupleLess(_wcversion_value(v), _wcversion_value(Head(sorted)))
         THEN <<v>> \o sorted
         ELSE <<Head(sorted)>> \o InsertByValue(v, Tail(sorted))

RECURSIVE SortedByValue(_)
SortedByValue(versions) ==
    IF versions = <<>> THEN <<>>
    ELSE InsertByValue(versions[Len(versions)],
                       SortedByValue(SubSeq(versions, 1, Len(versions) - 1)))

(* ------------------------- interval tables ----------------------------- *)

\* table_zero.ZERO_WIDTH[version]: U+0300..U+036F, U+0483..U+0489, and
\* U+200B..U+200F from 9.0.0 on
ZERO_WIDTH(version) ==
    IF TupleLess(_wcversion_value(version), <<9, 0, 0>>)
    THEN << <<768, 879>>, <<1155, 1161>> >>
    ELSE << <<768, 879>>, <<1155, 1161>>, <<8203, 8207>> >>

\* table_wide.WIDE_EASTASIAN[version]: U+1100..U+115F, U+4E00..U+9FFF, and
\* U+1F600..U+1F64F from 9.0.0 on
WIDE_EASTASIAN(version) ==
    IF TupleLess(_wcversion_value(version), <<9, 0, 0>>)
    THEN << <<4352, 4447>>, <<19968, 40959>> >>
    ELSE << <<4352, 4447>>, <<19968, 40959>>, <<128512, 128591>> >>

\* table_vs16.VS16_NARROW_TO_WIDE[version]: '#', '*', '0'..'9', and U+2640
\* from 9.0.0 on
VS16_NARROW_TO_WIDE(version) ==
    IF TupleLess(_wcversion_value(version), <<9, 0, 0>>)
    THEN << <<35, 35>>, <<42, 42>>, <<48, 57>> >>
    ELSE << <<35, 35>>, <<42, 42>>, <<48, 57>>, <<9792, 9792>> >>

\* the keys of WIDE_EASTASIAN as shipped: every version of the master list
ShippedWideKeys == list_versions

\* the keys of VS16_NARROW_TO_WIDE as shipped: 9.0.0 alone
ShippedVs16Keys == << <<"9", "0", "0">> >>

\* the while loop of _bisearch, on the 0-based indices min and max
RECURSIVE BisearchLoop(_, _, _, _)
BisearchLoop(ucs, table, min, max) ==
    IF max >= min
    THEN LET mid == (min + max) \div 2
         IN  IF ucs > table[mid + 1][2]
             THEN BisearchLoop(ucs, table, mid + 1, max)
             ELSE IF ucs < table[mid + 1][1]
                  THEN BisearchLoop(ucs, table, min, mid - 1)
                  ELSE 1
    ELSE 0

_bisearch(ucs, table) ==
    LET max == Len(table) - 1
    IN  IF ucs < table[1][1] \/ ucs > table[max + 1][2]
        THEN 0
        ELSE BisearchLoop(ucs, table, 0, max)

(* --------------------------- lru_cache --------------------------------- *)

\* A cache is the sequence of its entries [key, val], least recently used
\* first.
LruHas(cache, key) == \E k \in 1..Len(cache) : cache[k].key = key

LruValue(cache, key) ==
    LET k == CHOOSE k \in 1..Len(cache) : cache[k].key = key
    IN  cache[k].val

\* a hit makes the entry the most recently used one
LruTouch(cache, key) ==
    LET IsKey(e) == e.key = key
        NotKey(e) == e.key # key
    IN  SelectSeq(cache, NotKey) \o SelectSeq(cache, IsKey)

\* a miss stores the result and drops the least recently used entry of a
\* full cache
LruStore(cache, key, val, maxsize) ==
    LET c == Append(cache, [key |-> key, val |-> val])
    IN  IF Len(c) > maxsize THEN Tail(c) ELSE c

(* ------------------------ _wcmatch_version ----------------------------- *)

\* os.environ without UNICODE_VERSION
Unset == <<>>

\* warnings.warn(...): the requested and the substituted version
Warning(given_version, used) == [requested |-> given_version, used |-> used]

\* while len(parts) < 3: parts.append('0')
RECURSIVE PadParts(_)
PadParts(parts) ==
    IF Len(parts) < 3 THEN PadParts(Append(parts, "0")) ELSE parts

\* AboveFound, were the earliest version returned whatever prev_version is
AboveFoundEarliest(versions, prev_version, given_version) ==
    [val |-> versions[1],
     warns |-> <<Warning(given_version, versions[1])>>]

\* what the loop returns on meeting the first version above given_value
AboveFound(versions, prev_version, given_version) ==
    IF prev_version # <<>>
    THEN [val |-> prev_version,
          warns |-> <<Warning(given_version, prev_version)>>]
    ELSE [val |-> versions[1],
          warns |-> <<Warning(given_version, versions[1])>>]

\* for version in versions: ..., from the k-th version on; prev_version is
\* <<>> for None
RECURSIVE MatchLoop(_, _, _, _, _)
MatchLoop(versions, k, prev_version, given_version, given_value) ==
    IF k > Len(versions)
    THEN [val |-> versions[1],
          warns |-> <<Warning(given_version, versions[1])>>]
    ELSE IF _wcversion_value(versions[k]) = given_value
         THEN [val |-> versions[k], warns |-> <<>>]
         ELSE IF TupleLess(given_value, _wcversion_value(versions[k]))
              THEN AboveFound(versions, prev_version, given_version)
              ELSE MatchLoop(versions, k + 1, versions[k], given_version,
                             given_value)

\* whether _wcversion_value(given_version) raises: it catches ValueError and
\* AttributeError itself, so the handler of _wcmatch_version never runs
WcversionValueRaises(given_version) == FALSE

\* the body of _wcmatch_version: the version returned and the warnings
\* emitted on the way
MatchBody(given, environ) ==
    LET from_env == IF given = <<"auto">>
                    THEN (IF environ = Unset THEN <<"latest">> ELSE environ)
                    ELSE given
        latest == list_versions[Len(list_versions)]
    IN  IF from_env = <<"latest">>
        THEN [val |-> latest, warns |-> <<>>]
        ELSE IF WcversionValueRaises(from_env)
        THEN [val |-> latest, warns |-> <<Warning(from_env, latest)>>]
        ELSE
          With(PadParts(from_env), LAMBDA given_version :
          With(SortedByValue(list_versions), LAMBDA versions :
          With(_wcversion_value(given_version), LAMBDA given_value :
              IF TupleLess(_wcversion_value(versions[Len(versions)]),
                           given_value)
              THEN [val |-> versions[Len(versions)],
                    warns |-> <<Warning(given_version,
                                        versions[Len(versions)])>>]
              ELSE IF TupleLess(given_value, _wcversion_value(versions[1]))
              THEN [val |-> versions[1],
                    warns |-> <<Warning(given_version, versions[1])>>]
              ELSE MatchLoop(versions, 1, <<>>, given_version,
                             given_value))))

\* one call of _wcmatch_version: its argument, the version it returned and
\* the warnings it emitted
Resolution(given_version, val, warns) ==
    [given |-> given_version, val |-> val, warns |-> warns]

\* W holds the two caches and the resolver calls made so far by the running
\* operation; it is threaded through the calls.
\* @lru_cache(maxsize=8) _wcmatch_version: a hit returns the stored version
\* without running the body
_wcmatch_version(W, given_version, environ) ==
    IF LruHas(W.mcache, given_version)
    THEN With(LruValue(W.mcache, given_version), LAMBDA val :
             [val |-> val,
              W |-> [W EXCEPT
                       !.mcache = LruTouch(@, given_version),
                       !.resolutions =
                           Append(@, Resolution(given_version, val, <<>>))]])
    ELSE With(MatchBody(given_version, environ), LAMBDA r :
             [val |-> r.val,
              W |-> [W EXCEPT
                       !.mcache = LruStore(@, given_version, r.val,
                                           MatchCacheSize),
                       !.resolutions =
                           Append(@, Resolution(given_version, r.val,
                                                r.warns))]])

(* ------------------------------ wcwidth -------------------------------- *)

\* ucs < 32 or (0x7f <= ucs < 0xa0)
IsControl(ucs) == ucs < 32 \/ (127 <= ucs /\ ucs < 160)

\* for v in versions: if _wcversion_value(v) <= _wcversion_value(version):
\* take v and break; chosen is kept when no v qualifies
RECURSIVE FirstKeyLeq(_, _, _, _)
FirstKeyLeq(versions, k, version, chosen) ==
    IF k > Len(versions) THEN chosen
    ELSE IF TupleLeq(_wcversion_value(versions[k]), _wcversion_value(version))
         THEN versions[k]
         ELSE FirstKeyLeq(versions, k + 1, version, chosen)

\* the key of VS16_NARROW_TO_WIDE that wcwidth probes
Vs16VersionFor(version, vs16_keys) ==
    IF version \in Range(vs16_keys) THEN version
    ELSE LET vs16_versions == SortedByValue(vs16_keys)
         IN  FirstKeyLeq(vs16_versions, 1, version, vs16_versions[1])

\* the key of WIDE_EASTASIAN that wcwidth probes
WideVersionFor(version, wide_keys) ==
    IF version \in Range(wide_keys) THEN version
    ELSE LET wide_versions == SortedByValue(wide_keys)
         IN  FirstKeyLeq(wide_versions, 1, version, wide_versions[1])

\* the width wcwidth gives a member of the VS16 table
Vs16CharWidth(version) ==
    IF TupleLeq(_wcversion_value(version), _wcversion_value(<<"8", "0", "0">>))
    THEN 1
    ELSE 1

\* the result of a wcwidth call that returns before probing the VS16 and
\* wide tables
Early(val, W) ==
    [val |-> val, W |-> W, vs16_version |-> <<>>, wide_version |-> <<>>]

\* the body of wcwidth; T holds the environment and the keys of the two
\* partial table sets
WcwidthBody(W, wc, version_arg, T) ==
    LET ucs == IF Len(wc) > 0 THEN wc[1] ELSE 0
    IN  IF ucs = 0 THEN Early(0, W)
        ELSE IF IsControl(ucs) THEN Early(0 - 1, W)
        ELSE
          With(_wcmatch_version(W, version_arg, T.environ), LAMBDA m :
          With(m.val, LAMBDA version :
              IF _bisearch(ucs, ZERO_WIDTH(version)) # 0 THEN Early(0, m.W)
              ELSE IF ucs = ZWJ THEN Early(0, m.W)
              ELSE IF ucs = VS16 THEN Early(0, m.W)
              ELSE
                With(Vs16VersionFor(version, T.vs16_keys), LAMBDA vs16_v :
                With(WideVersionFor(version, T.wide_keys), LAMBDA wide_v :
                    [val |-> IF _bisearch(ucs, VS16_NARROW_TO_WIDE(vs16_v))
                                    # 0
                             THEN Vs16CharWidth(version)
                             ELSE IF _bisearch(ucs, WIDE_EASTASIAN(wide_v))
                                         # 0
                                  THEN 2
                                  ELSE 1,
                     W |-> m.W,
                     vs16_version |-> vs16_v, wide_version |-> wide_v]))))

\* @lru_cache(maxsize=1000) wcwidth
wcwidth(W, wc, version_arg, T) ==
    LET key == <<wc, version_arg>>
    IN  IF LruHas(W.wcache, key)
        THEN Early(LruValue(W.wcache, key),
                   [W EXCEPT !.wcache = LruTouch(@, key)])
        ELSE With(WcwidthBody(W, wc, version_arg, T), LAMBDA r :
                 [r EXCEPT !.W.wcache = LruStore(@, key, r.val,
                                                 WcwidthCacheSize)])

(* ------------------------------ wcswidth ------------------------------- *)

\* the argument n is <<>> for None and <<k>> for the integer k
None == <<>>

Min(a, b) == IF a < b THEN a ELSE b

\* MeasuredLength, were the argument n ignored
MeasuredLengthAll(pwcs, n) == Len(pwcs)

\* n after lines 205-208
MeasuredLength(pwcs, n) ==
    IF n = None THEN Len(pwcs) ELSE Min(n[1], Len(pwcs))

\* ord(pwcs[i]), i counted from 0
Ord(pwcs, i) == pwcs[i + 1]

Span(start, end, seq_type) ==
    [start |-> start, end |-> end, seq_type |-> seq_type]

\* the inner while loop of the ZWJ branch: the value of j when it ends
RECURSIVE ZwjLoop(_, _, _)
ZwjLoop(pwcs, n, j) ==
    IF j < n
    THEN IF j + 1 < n /\ Ord(pwcs, j + 1) = ZWJ
         THEN ZwjLoop(pwcs, n, j + 2)
         ELSE IF Ord(pwcs, j) = ZWJ \/ Ord(pwcs, j) = VS16
              THEN ZwjLoop(pwcs, n, j + 1)
              ELSE j
    ELSE j

\* the span the ZWJ branch appends for a sequence starting at i
ZwjSpan(pwcs, n, i) == Span(i, ZwjLoop(pwcs, n, i + 2) + 1, "zwj")

\* the first while loop of wcswidth from position i on: ret is -1 when it
\* returns -1, else 0
RECURSIVE PreScan(_, _, _, _)
PreScan(pwcs, n, i, sequences) ==
    IF i < n
    THEN LET ucs == Ord(pwcs, i)
         IN  IF ucs # 0 /\ IsControl(ucs)
             THEN [ret |-> 0 - 1, sequences |-> sequences]
             ELSE IF i + 1 < n /\ Ord(pwcs, i + 1) = ZWJ
             THEN With(ZwjSpan(pwcs, n, i), LAMBDA s :
                      PreScan(pwcs, n, s.end, Append(sequences, s)))
             ELSE IF i + 1 < n /\ Ord(pwcs, i + 1) = VS16
             THEN PreScan(pwcs, n, i + 2,
                          Append(sequences, Span(i, i + 2, "vs16")))
             ELSE PreScan(pwcs, n, i + 1, sequences)
    ELSE [ret |-> 0, sequences |-> sequences]

\* the width of a VS16 sequence: the version argument itself is parsed
Vs16SpanWidth(version_arg) ==
    IF TupleLeq(_wcversion_value(version_arg),
                _wcversion_value(<<"8", "0", "0">>))
    THEN 1
    ELSE 2

\* for start, end, seq_type in sequences (lines 248-263), from the k-th span
\* on: the span at which the loop breaks, or 0
RECURSIVE StartLoop(_, _, _)
StartLoop(sequences, k, i) ==
    IF k > Len(sequences) THEN 0
    ELSE IF i = sequences[k].start THEN k
    ELSE IF sequences[k].start <= i /\ i < sequences[k].end THEN k
    ELSE StartLoop(sequences, k + 1, i)

\* lines 270-274
IsPartOfSequence(sequences, i) ==
    \E k \in 1..Len(sequences) :
        sequences[k].start <= i /\ i < sequences[k].end

\* the second while loop of wcswidth from position i on
RECURSIVE Walk(_, _, _, _, _, _, _, _)
Walk(W, pwcs, n, sequences, version_arg, T, i, width) ==
    IF i < n
    THEN With(StartLoop(sequences, 1, i), LAMBDA k :
             IF k # 0
             THEN IF i = sequences[k].start
                  THEN Walk(W, pwcs, n, sequences, version_arg, T,
                            (sequences[k].end - 1) + 1,
                            width + (IF sequences[k].seq_type = "vs16"
                                     THEN Vs16SpanWidth(version_arg)
                                     ELSE 2))
                  ELSE Walk(W, pwcs, n, sequences, version_arg, T,
                            i + 1, width)
             ELSE IF ~IsPartOfSequence(sequences, i)
             THEN With(wcwidth(W, <<Ord(pwcs, i)>>, version_arg, T),
                       LAMBDA c :
                      IF c.val < 0
                      THEN [ret |-> 0 - 1, width |-> width, W |-> c.W]
                      ELSE Walk(c.W, pwcs, n, sequences, version_arg, T,
                                i + 1, width + c.val))
             ELSE Walk(W, pwcs, n, sequences, version_arg, T, i + 1, width))
    ELSE [ret |-> 0, width |-> width, W |-> W]

\* (start <= prev_end and end >= prev_start) for some span kept so far
Overlaps(non_overlapping, s) ==
    \E k \in 1..Len(non_overlapping) :
        s.start <= non_overlapping[k].end /\ s.end >= non_overlapping[k].start

\* lines 296-306 from the k-th span on
RECURSIVE NonOverlapping(_, _, _)
NonOverlapping(sequences, k, non_overlapping) ==
    IF k > Len(sequences) THEN non_overlapping
    ELSE IF sequences[k].seq_type = "vs16"
         THEN NonOverlapping(sequences, k + 1, non_overlapping)
         ELSE IF Overlaps(non_overlapping, sequences[k])
              THEN NonOverlapping(sequences, k + 1, non_overlapping)
              ELSE NonOverlapping(sequences, k + 1,
                                  Append(non_overlapping, sequences[k]))

\* Normalize, were the sum kept when a ZWJ sequence was found
NormalizeSum(sequences, width, version_arg) ==
    IF Len(sequences) = 1 /\ sequences[1].seq_type = "vs16"
    THEN Vs16SpanWidth(version_arg)
    ELSE width

\* lines 285-310: what wcswidth returns once the walk has summed width
Normalize(sequences, width, version_arg) ==
    IF sequences # <<>>
    THEN IF Len(sequences) = 1 /\ sequences[1].seq_type = "vs16"
         THEN Vs16SpanWidth(version_arg)
         ELSE IF NonOverlapping(sequences, 1, <<>>) # <<>>
              THEN 2
              ELSE width
    ELSE width

wcswidth(W, pwcs, n_arg, version_arg, T) ==
    IF pwcs = <<>>
    THEN [val |-> 0, sequences |-> <<>>, W |-> W]
    ELSE
      With(MeasuredLength(pwcs, n_arg), LAMBDA n :
      With(PreScan(pwcs, n, 0, <<>>), LAMBDA scan :
          IF scan.ret < 0
          THEN [val |-> 0 - 1, sequences |-> scan.sequences, W |-> W]
          ELSE
            With(Walk(W, pwcs, n, scan.sequences, version_arg, T, 0, 0),
                 LAMBDA walk :
                IF walk.ret < 0
                THEN [val |-> 0 - 1, sequences |-> scan.sequences,
                      W |-> walk.W]
                ELSE [val |-> Normalize(scan.sequences, walk.width,
                                        version_arg),
                      sequences |-> scan.sequences, W |-> walk.W])))

(* --------------------------- state machine ----------------------------- *)

VARIABLES
    pc,               \* "call": a call is pending; "done": it has returned
    fn,               \* the function called
    pwcs,             \* the string argument (wc for wcwidth)
    n,                \* the argument n of wcswidth
    unicode_version,  \* the version argument
    environ,          \* os.environ['UNICODE_VERSION'], or Unset
    vs16_keys,        \* the keys of VS16_NARROW_TO_WIDE
    wide_keys,        \* the keys of WIDE_EASTASIAN
    result,           \* the integer returned by wcwidth or wcswidth
    matched,          \* the version returned by _wcmatch_version
    sequences,        \* the list sequences of the last wcswidth call
    vs16_version,     \* the local vs16_version of the last wcwidth call
    wide_version,     \* the local wide_version of the last wcwidth call
    mcache,           \* the lru_cache of _wcmatch_version
    wcache,           \* the lru_cache of wcwidth
    resolutions,      \* the _wcmatch_version calls made by the last call
    ncalls            \* calls requested so far

vars ==
    <<pc, fn, pwcs, n, unicode_version, environ, vs16_keys, wide_keys,
      result, matched, sequences, vs16_version, wide_version, mcache,
      wcache, resolutions, ncalls>>

\* NUL, ESC, '#', 'a', U+0301, U+200D, U+FE0F, U+4E2D
Alphabet == {0, 27, 35, 97, 769, ZWJ, VS16, 20013}

\* more code points for single-character calls: the ends of the control
\* ranges, U+2640 and U+1F600
WideAlphabet ==
    Alphabet \cup {1, 31, 32, 126, 127, 159, 160, 9792, 128512}

RECURSIVE StringsOver(_, _)
StringsOver(chars, len) ==
    IF len = 0 THEN {<<>>}
    ELSE LET shorter == StringsOver(chars, len - 1)
         IN  shorter \cup
             {Append(s, c) : s \in {t \in shorter : Len(t) = len - 1},
                             c \in chars}

Auto == <<"auto">>
Latest == <<"latest">>

\* the tokens requested version strings are built from
Tokens == {"0", "1", "4", "8", "08", "9", "11", "x"}

\* every version string of at most MaxParts tokens, and the two keywords
Descriptors == (StringsOver(Tokens, MaxParts) \ {<<>>}) \cup {Auto, Latest}

\* the version strings handed to wcwidth and wcswidth
VersionArgs ==
    {Auto, Latest, <<"8", "0", "0">>, <<"9", "0", "0">>, <<"4", "9", "9">>,
     <<"9">>, <<"11">>, <<"x">>}

\* the version strings handed to wcswidth
StringVersionArgs ==
    {Auto, Latest, <<"8", "0", "0">>, <<"9", "0", "0">>, <<"9">>, <<"x">>}

Environs == {Unset, <<"8", "0", "0">>, <<"4", "9", "9">>}

\* UNICODE_VERSION is read by a call with version "auto" only
EnvironsFor(version_arg) ==
    IF version_arg = Auto THEN Environs ELSE {Unset}

NArgs == {None} \cup {<<k>> : k \in (0 - 1)..MaxLen}

Tables == [environ |-> environ, vs16_keys |-> vs16_keys,
           wide_keys |-> wide_keys]

World == [mcache |-> mcache, wcache |-> wcache, resolutions |-> <<>>]

NoResults ==
    /\ result = 0
    /\ matched = <<>>
    /\ sequences = <<>>
    /\ vs16_version = <<>>
    /\ wide_version = <<>>
    /\ resolutions = <<>>

ColdCaches == mcache = <<>> /\ wcache = <<>>

ShippedTables == vs16_keys = ShippedVs16Keys /\ wide_keys = ShippedWideKeys

\* one call, of any of the three functions, in a fresh interpreter
Init ==
    /\ pc = "call"
    /\ ncalls = 1
    /\ ShippedTables
    /\ ColdCaches
    /\ NoResults
    /\ \/ /\ fn = "wcswidth"
          /\ pwcs \in StringsOver(Alphabet, MaxLen)
          /\ n \in NArgs
          /\ unicode_version \in StringVersionArgs
       \/ /\ fn = "wcwidth"
          /\ pwcs \in StringsOver(WideAlphabet, 1)
          /\ n = None
          /\ unicode_version \in VersionArgs
       \/ /\ fn = "_wcmatch_version"
          /\ pwcs = <<>>
          /\ n = None
          /\ unicode_version \in Descriptors
    /\ environ \in EnvironsFor(unicode_version)

Call_wcswidth ==
    /\ pc = "call"
    /\ fn = "wcswidth"
    /\ \E r \in {wcswidth(World, pwcs, n, unicode_version, Tables)} :
           /\ result' = r.val
           /\ sequences' = r.sequences
           /\ mcache' = r.W.mcache
           /\ wcache' = r.W.wcache
           /\ resolutions' = r.W.resolutions
    /\ pc' = "done"
    /\ UNCHANGED <<fn, pwcs, n, unicode_version, environ, vs16_keys,
                   wide_keys, matched, vs16_version, wide_version, ncalls>>

Call_wcwidth ==
    /\ pc = "call"
    /\ fn = "wcwidth"
    /\ \E r \in {wcwidth(World, pwcs, unicode_version, Tables)} :
           /\ result' = r.val
           /\ vs16_version' = r.vs16_version
           /\ wide_version' = r.wide_version
           /\ mcache' = r.W.mcache
           /\ wcache' = r.W.wcache
           /\ resolutions' = r.W.resolutions
    /\ pc' = "done"
    /\ UNCHANGED <<fn, pwcs, n, unicode_version, environ, vs16_keys,
                   wide_keys, matched, sequences, ncalls>>

Call_wcmatch_version ==
    /\ pc = "call"
    /\ fn = "_wcmatch_version"
    /\ \E r \in {_wcmatch_version(World, unicode_version, environ)} :
           /\ matched' = r.val
           /\ mcache' = r.W.mcache
           /\ resolutions' = r.W.resolutions
    /\ pc' = "done"
    /\ UNCHANGED <<fn, pwcs, n, unicode_version, environ, vs16_keys,
                   wide_keys, result, sequences, vs16_version, wide_version,
                   wcache, ncalls>>

Next == Call_wcswidth \/ Call_wcwidth \/ Call_wcmatch_version

Spec == Init /\ [][Next]_vars

(* ------------- wcwidth over arbitrary sets of table keys --------------- *)

\* a table set may define any non-empty part of the master list
KeyDicts ==
    {SelectSeq(list_versions, LAMBDA v : v \in S) :
        S \in (SUBSET Range(list_versions)) \ {{}}}

\* '#', 'a', U+2640, U+4E2D, U+1F600
ProbedChars == {<<35>>, <<97>>, <<9792>>, <<20013>>, <<128512>>}

\* the version strings handed to wcwidth when the table keys vary
TableVersionArgs ==
    {Latest, <<"8", "0", "0">>, <<"9", "0", "0">>, <<"4", "9", "9">>}

InitTables ==
    /\ pc = "call"
    /\ ncalls = 1
    /\ vs16_keys \in KeyDicts
    /\ wide_keys \in KeyDicts
    /\ ColdCaches
    /\ NoResults
    /\ fn = "wcwidth"
    /\ pwcs \in ProbedChars
    /\ n = None
    /\ unicode_version \in TableVersionArgs
    /\ environ = Unset

NextTables == Call_wcwidth

SpecTables == InitTables /\ [][NextTables]_vars

(* ---------------------- several calls in a row ------------------------- *)

CallChars == {<<97>>, <<20013>>}

CallVersions == {Auto, Latest, <<"4", "9", "9">>, <<"9", "0", "0">>}

InitCalls ==
    /\ pc = "done"
    /\ ncalls = 0
    /\ fn = "none"
    /\ pwcs = <<>>
    /\ n = None
    /\ unicode_version = Latest
    /\ environ \in Environs
    /\ ShippedTables
    /\ ColdCaches
    /\ NoResults

\* the caller makes its next call; the caches are kept
Request ==
    /\ pc = "done"
    /\ ncalls < MaxCalls
    /\ \/ fn' = "wcwidth" /\ pwcs' \in CallChars
       \/ fn' = "_wcmatch_version" /\ pwcs' = <<>>
    /\ unicode_version' \in CallVersions
    /\ pc' = "call"
    /\ ncalls' = ncalls + 1
    /\ result' = 0
    /\ matched' = <<>>
    /\ sequences' = <<>>
    /\ vs16_version' = <<>>
    /\ wide_version' = <<>>
    /\ resolutions' = <<>>
    /\ UNCHANGED <<n, environ, vs16_keys, wide_keys, mcache, wcache>>

NextCalls == Request \/ Call_wcwidth \/ Call_wcmatch_version

SpecCalls == InitCalls /\ [][NextCalls]_vars

(* ------------------------------ properties ----------------------------- *)

Returned(f) == pc = "done" /\ fn = f

\* the measured prefix of the wcswidth call
PrefixLength ==
    IF MeasuredLength(pwcs, n) < 0 THEN 0 ELSE MeasuredLength(pwcs, n)

Prefix == SubSeq(pwcs, 1, PrefixLength)

IsBase(c) == ~(c # 0 /\ IsControl(c)) /\ c # ZWJ /\ c # VS16

\* the version string resolution works on: UNICODE_VERSION or "latest"
\* stands in for "auto"
Requested(given) ==
    IF given = Auto THEN (IF environ = Unset THEN Latest ELSE environ)
    ELSE given

IsNumeric(given) == \A k \in 1..Len(given) : given[k] \in DOMAIN IntOf

\* C1: a control character (1..31, or 0x7F up to but not 0x9F) anywhere in
\* the measured prefix makes wcswidth return -1.
C1_ControlForcesMinusOne ==
    (/\ Returned("wcswidth")
     /\ \E k \in 1..PrefixLength :
            (1 <= pwcs[k] /\ pwcs[k] <= 31)
            \/ (127 <= pwcs[k] /\ pwcs[k] < 159))
    => result = 0 - 1

\* C2: a base character followed by U+FE0F measures 1 at version "8.0.0"
\* and 2 at version "9.0.0" or "latest".
C2_SelectorPairWidth ==
    (/\ Returned("wcswidth")
     /\ Len(pwcs) = 2
     /\ PrefixLength = 2
     /\ IsBase(pwcs[1])
     /\ pwcs[1] # 0
     /\ pwcs[2] = VS16)
    => /\ unicode_version = <<"8", "0", "0">> => result = 1
       /\ unicode_version \in {<<"9", "0", "0">>, Latest} => result = 2

\* C3: two base characters joined by U+200D measure 2 at every version, and
\* whenever the pre-scan recorded a joined span and wcswidth did not return
\* -1, it returned 2.
C3_JoinedIsTwo ==
    Returned("wcswidth") =>
        /\ (/\ Len(pwcs) = 3
            /\ PrefixLength = 3
            /\ IsBase(pwcs[1])
            /\ pwcs[2] = ZWJ
            /\ IsBase(pwcs[3])) => result = 2
        /\ (/\ \E k \in 1..Len(sequences) : sequences[k].seq_type = "zwj"
            /\ result # 0 - 1) => result = 2

\* two wide ideographs around a joiner, and a joined span behind a narrow
\* letter: the widths of the characters sum to 4 and 3, the result is 2
C3_Witness ==
    /\ Returned("wcswidth")
    /\ pwcs \in {<<20013, ZWJ, 20013>>, <<97, 97, ZWJ>>}
    /\ n = None
    /\ sequences # <<>>
    /\ result = 2

\* the supported versions as integer tuples
SupportedValues == {_wcversion_value(v) : v \in Range(list_versions)}

\* the version the documented rules select for the integer tuple value
Nearest(value) ==
    LET Supported(v) == _wcversion_value(v) = value
        Below(v) == TupleLess(_wcversion_value(v), value)
        Above(v) == TupleLess(value, _wcversion_value(v))
        All == Range(list_versions)
    IN  IF \E v \in All : Supported(v)
        THEN CHOOSE v \in All : Supported(v)
        ELSE IF \A v \in All : Below(v)
        THEN CHOOSE v \in All :
                 \A u \in All : TupleLeq(_wcversion_value(u),
                                         _wcversion_value(v))
        ELSE IF \A v \in All : Above(v)
        THEN CHOOSE v \in All :
                 \A u \in All : TupleLeq(_wcversion_value(v),
                                         _wcversion_value(u))
        ELSE CHOOSE v \in All :
                 /\ Below(v)
                 /\ \A u \in All :
                        Below(u) => TupleLeq(_wcversion_value(u),
                                             _wcversion_value(v))

\* the integer tuple of a numeric version string padded with zeros to three
\* components
PaddedValue(given) ==
    [k \in 1..3 |-> IF k <= Len(given) THEN IntOf[given[k]] ELSE 0]

\* C4: a numeric version string of one to three components resolves to the
\* exact match if there is one, else to the maximum when above it, to the
\* minimum when below it, else to the greatest supported version below it.
C4_NearestVersion ==
    (/\ Returned("_wcmatch_version")
     /\ IsNumeric(unicode_version)
     /\ Len(unicode_version) <= 3)
    => /\ matched = Nearest(PaddedValue(unicode_version))
       /\ matched \in Range(list_versions)

\* "8.1" lies between 8.0.0 and 9.0.0, "11" above the maximum, "1" below the
\* minimum, and "08" is 8.0.0 itself
C4_Witness ==
    /\ Returned("_wcmatch_version")
    /\ \/ unicode_version = <<"8", "1">> /\ matched = <<"8", "0", "0">>
       \/ unicode_version = <<"11">> /\ matched = <<"10", "0", "0">>
       \/ unicode_version = <<"1">> /\ matched = <<"4", "1", "0">>
       \/ unicode_version = <<"08">> /\ matched = <<"8", "0", "0">>

\* C5: a version string with a token that is no integer, other than "auto"
\* and "latest", resolves to the latest version, with a warning.
C5_MalformedGivesLatest ==
    (/\ Returned("_wcmatch_version")
     /\ ~IsNumeric(unicode_version)
     /\ unicode_version \notin {Auto, Latest})
    => /\ matched = list_versions[Len(list_versions)]
       /\ resolutions[1].warns # <<>>

\* C6: a code point that passes the earlier rules and is in the VS16 table
\* of the per-table version has width 1 when the resolved version is at most
\* 8.0.0 and width 2 above it.
C6_Vs16MemberWidth ==
    (/\ Returned("wcwidth")
     /\ vs16_version # <<>>
     /\ _bisearch(pwcs[1], VS16_NARROW_TO_WIDE(vs16_version)) # 0)
    => result = IF TupleLeq(_wcversion_value(resolutions[1].val), <<8, 0, 0>>)
                THEN 1
                ELSE 2

\* whether the version returned is the one requested, padded
ExactMatch(r) ==
    \/ Requested(r.given) = Latest
    \/ /\ IsNumeric(Requested(r.given))
       /\ _wcversion_value(PadParts(Requested(r.given)))
              = _wcversion_value(r.val)

\* C7: every call of the resolver that returns something else than an exact
\* match emits a warning naming the requested and the substituted version,
\* also when the answer comes from the cache.
C7_WarnsOnEveryDeviation ==
    pc = "done" =>
        \A k \in 1..Len(resolutions) :
            ~ExactMatch(resolutions[k]) =>
                \E j \in 1..Len(resolutions[k].warns) :
                    /\ resolutions[k].warns[j].requested
                           = PadParts(Requested(resolutions[k].given))
                    /\ resolutions[k].warns[j].used = resolutions[k].val

\* the width of one character at the version argument of the call
CharWidth(c) ==
    WcwidthBody([mcache |-> <<>>, wcache |-> <<>>, resolutions |-> <<>>],
                <<c>>, unicode_version, Tables).val

RECURSIVE SumWidths(_)
SumWidths(s) ==
    IF s = <<>> THEN 0 ELSE CharWidth(Head(s)) + SumWidths(Tail(s))

\* no character of the prefix starts a span
NoSpanStart ==
    \A k \in 2..PrefixLength : pwcs[k] # ZWJ /\ pwcs[k] # VS16

FallbackKey(version, keys) ==
    LET K == Range(keys)
        AtMost == {k \in K : TupleLeq(_wcversion_value(k),
                                      _wcversion_value(version))}
    IN  IF AtMost = {}
        THEN CHOOSE k \in K : \A u \in K : TupleLeq(_wcversion_value(k),
                                                    _wcversion_value(u))
        ELSE CHOOSE k \in AtMost :
                 \A u \in AtMost : TupleLeq(_wcversion_value(u),
                                            _wcversion_value(k))

\* C9: when the resolved version is no key of a table set, wcwidth probes
\* the greatest key at most the resolved version, or the smallest key.
C9_PerTableFallback ==
    (Returned("wcwidth") /\ vs16_version # <<>>) =>
        /\ resolutions[1].val \notin Range(vs16_keys)
           => vs16_version = FallbackKey(resolutions[1].val, vs16_keys)
        /\ resolutions[1].val \notin Range(wide_keys)
           => wide_version = FallbackKey(resolutions[1].val, wide_keys)

\* C10: every span recorded by the pre-scan lies inside the measured prefix.
C10_SpansInsidePrefix ==
    Returned("wcswidth") =>
        \A k \in 1..Len(sequences) :
            /\ 0 <= sequences[k].start
            /\ sequences[k].start < sequences[k].end
            /\ sequences[k].end <= PrefixLength

====
